---- MODULE Spec2Model ----
(***************************************************************************)
(* TE3_hub: the serial MIDI framer (handleSerialMidi), the TEHUB command   *)
(* dispatcher (tehub_dispatchCC / tehub_getCC / tehub_dumpCCValues) and    *)
(* the output mixer levels (setMixLevel) of src/TE3_hub.ino.               *)
(*                                                                         *)
(* One step of the model is one iteration of the while loop of             *)
(* handleSerialMidi: one byte is read from the serial port and handled,    *)
(* every call it leads to included.                                        *)
(***************************************************************************)
EXTENDS Integers, Sequences, FiniteSets

VARIABLES
    len,        \* handleSerialMidi: static uint8_t len
    buf,        \* handleSerialMidi: the bytes buf[0..len-1] of msg32
    mix_level,  \* uint8_t mix_level[NUM_MIXER_CHANNELS]
    gain_L,     \* mixer_L's gain per channel, in hundredths (vol = val/100)
    gain_R,     \* mixer_R's gain per channel, in hundredths
    halted,     \* TRUE once reboot_teensy() has been entered (it never returns)
    out,        \* what the last loop iteration read and reported
    last_set,   \* history: per channel, the val of the last setMixLevel call
    seg,        \* history: bytes read / sync errors since the last frame end
    sg,         \* the SGTL5000 object sgtl5000
    it,         \* history: the last iteration of loop()
    stalled,    \* TRUE once the serial port delivers no further byte
    probe       \* the inputs and the result of a method called on its own

vars == <<len, buf, mix_level, gain_L, gain_R, halted, out, last_set, seg,
          sg, it, stalled, probe>>

----------------------------------------------------------------------------
\* Program constants of src/TE3_hub.ino

NUM_MIXER_CHANNELS == 4

MIX_CHANNEL_IN == 0
MIX_CHANNEL_USB == 1
MIX_CHANNEL_LOOP == 2
MIX_CHANNEL_AUX == 3

DEFAULT_VOLUME_IN == 0
DEFAULT_VOLUME_USB == 100
DEFAULT_VOLUME_LOOP == 0
DEFAULT_VOLUME_AUX == 0

\* Constants of the protocol headers (teMIDI.h, teCommon.h, sgtl5000midi.h).
\* The headers are not among the sources; the values follow the wire format
\* of the specification: byte 0 = (cable << 4) | type, 0x0B = domain A + CC.

MIDI_TYPE_CC == 11

SGTL5000_CABLE == 0
SGTL5000_CHANNEL == 2

TEHUB_CABLE == 1
TEHUB_CHANNEL == 1

TEHUB_CC_BASE == 1
TEHUB_CC_DUMP == 1
TEHUB_CC_REBOOT == 2
TEHUB_CC_RESET == 3
TEHUB_CC_MIX_IN == 4
TEHUB_CC_MIX_USB == 5
TEHUB_CC_MIX_LOOP == 6
TEHUB_CC_MIX_AUX == 7
TEHUB_CC_MAX == 7

----------------------------------------------------------------------------
\* Bounds of the model

\* at most this many bytes in a row are rejected as sync errors
MaxSyncRun == 2

\* The bytes the serial port delivers: both legal headers (0x0B, 0x1B), a
\* CC header of an unknown cable (0x2B), bytes of a known cable whose type
\* is not CC (0x01..0x04), both channels (1, 2), the TEHUB commands DUMP,
\* REBOOT, RESET and MIX_IN (1..4) and unknown ones, values in range, the
\* maximum (127) and the maximum + 1 (128).
Bytes == {1, 2, 3, 4, 11, 27, 43, 127, 128}

Channels == 0 .. (NUM_MIXER_CHANNELS - 1)

----------------------------------------------------------------------------
\* What the program reports and calls: display / my_error / warning lines
\* and the calls into the dispatchers, as records.

Ev(kind, a, b) == [kind |-> kind, a |-> a, b |-> b]

\* the mixer state as one value
Mixer(ml, gl, gr) == [mix_level |-> ml, gain_L |-> gl, gain_R |-> gr]

\* the result of a call: did it return, its return value, the mixer state
\* it leaves, what it reported
Result(returns, ret, m, events) ==
    [returns |-> returns, ret |-> ret, m |-> m, events |-> events]

----------------------------------------------------------------------------
\* mutant: a val above 127 is rejected
setMixLevel_reject(channel, val, m) ==
    LET call == Ev("setMixLevel", channel, val)
    IN  IF val > 127
        THEN Result(TRUE, FALSE, m, <<call>>)
        ELSE IF channel >= MIX_CHANNEL_IN /\ channel <= MIX_CHANNEL_AUX
        THEN Result(TRUE, TRUE,
                    Mixer([m.mix_level EXCEPT ![channel] = val],
                          [m.gain_L EXCEPT ![channel] = val],
                          [m.gain_R EXCEPT ![channel] = val]),
                    <<call>>)
        ELSE Result(TRUE, FALSE, m,
                    <<call, Ev("error_mix_channel", channel, 0)>>)

\* mutant: val is stored as it comes
setMixLevel_noClamp(channel, val, m) ==
    LET call == Ev("setMixLevel", channel, val)
    IN  IF channel >= MIX_CHANNEL_IN /\ channel <= MIX_CHANNEL_AUX
        THEN Result(TRUE, TRUE,
                    Mixer([m.mix_level EXCEPT ![channel] = val],
                          [m.gain_L EXCEPT ![channel] = val],
                          [m.gain_R EXCEPT ![channel] = val]),
                    <<call>>)
        ELSE Result(TRUE, FALSE, m,
                    <<call, Ev("error_mix_channel", channel, 0)>>)

\* setMixLevel(channel, val): TE3_hub.ino 115-132

setMixLevel(channel, val, m) ==
    LET v == IF val > 127 THEN 127 ELSE val
        call == Ev("setMixLevel", channel, val)
    IN  IF channel >= MIX_CHANNEL_IN /\ channel <= MIX_CHANNEL_AUX
        THEN Result(TRUE, TRUE,
                    Mixer([m.mix_level EXCEPT ![channel] = v],
                          [m.gain_L EXCEPT ![channel] = v],
                          [m.gain_R EXCEPT ![channel] = v]),
                    <<call>>)
        ELSE Result(TRUE, FALSE, m,
                    <<call, Ev("error_mix_channel", channel, 0)>>)

\* The globals before setup(): mix_level is a zero-initialised global, an
\* AudioMixer4 starts with unity gain on every channel.
PowerOn ==
    Mixer([c \in Channels |-> 0], [c \in Channels |-> 100],
          [c \in Channels |-> 100])

\* setup(): the four setMixLevel calls of TE3_hub.ino 213-216
setup ==
    LET m1 == setMixLevel(MIX_CHANNEL_IN, DEFAULT_VOLUME_IN, PowerOn).m
        m2 == setMixLevel(MIX_CHANNEL_USB, DEFAULT_VOLUME_USB, m1).m
        m3 == setMixLevel(MIX_CHANNEL_LOOP, DEFAULT_VOLUME_LOOP, m2).m
    IN  setMixLevel(MIX_CHANNEL_AUX, DEFAULT_VOLUME_AUX, m3).m

----------------------------------------------------------------------------
\* mutant: MIX_IN and MIX_USB read each other's entry
tehub_getCC_swapped(cc, m) ==
    CASE cc = TEHUB_CC_DUMP     -> 255
      [] cc = TEHUB_CC_REBOOT   -> 255
      [] cc = TEHUB_CC_RESET    -> 255
      [] cc = TEHUB_CC_MIX_IN   -> m.mix_level[MIX_CHANNEL_USB]
      [] cc = TEHUB_CC_MIX_USB  -> m.mix_level[MIX_CHANNEL_IN]
      [] cc = TEHUB_CC_MIX_LOOP -> m.mix_level[MIX_CHANNEL_LOOP]
      [] cc = TEHUB_CC_MIX_AUX  -> m.mix_level[MIX_CHANNEL_AUX]
      [] OTHER                  -> -1

\* tehub_getCC(cc): TE3_hub.ino 343-358

tehub_getCC(cc, m) ==
    CASE cc = TEHUB_CC_DUMP     -> 255
      [] cc = TEHUB_CC_REBOOT   -> 255
      [] cc = TEHUB_CC_RESET    -> 255
      [] cc = TEHUB_CC_MIX_IN   -> m.mix_level[MIX_CHANNEL_IN]
      [] cc = TEHUB_CC_MIX_USB  -> m.mix_level[MIX_CHANNEL_USB]
      [] cc = TEHUB_CC_MIX_LOOP -> m.mix_level[MIX_CHANNEL_LOOP]
      [] cc = TEHUB_CC_MIX_AUX  -> m.mix_level[MIX_CHANNEL_AUX]
      [] OTHER                  -> -1

\* tehub_writeOnlyCC(cc) of teCommon.h: the commands that are actions
tehub_writeOnlyCC(cc) ==
    cc \in {TEHUB_CC_DUMP, TEHUB_CC_REBOOT, TEHUB_CC_RESET}

\* the for loop of tehub_dumpCCValues from cc on, TE3_hub.ino 367-378,
\* writeOnly being the commands tehub_writeOnlyCC holds of: one line per
\* command that is not write only and that tehub_getCC knows
RECURSIVE dumpLinesFor(_, _, _)
dumpLinesFor(cc, m, writeOnly) ==
    IF cc > TEHUB_CC_MAX THEN << >>
    ELSE LET val == tehub_getCC(cc, m)
             line == IF ~(cc \in writeOnly) /\ val # -1
                     THEN <<Ev("dump_line", cc, val)>>
                     ELSE << >>
         IN  line \o dumpLinesFor(cc + 1, m, writeOnly)

\* the loop with tehub_writeOnlyCC as teCommon.h has it
dumpLines(cc, m) ==
    dumpLinesFor(cc, m, {c \in TEHUB_CC_BASE .. TEHUB_CC_MAX :
                           tehub_writeOnlyCC(c)})

\* mutant: the error is reported for every command when none was printed
dumpReport_perEntry(lines) ==
    <<Ev("dump_header", 0, 0)>> \o lines \o
    (IF Len(lines) = 0
     THEN [cc \in 1 .. (TEHUB_CC_MAX - TEHUB_CC_BASE + 1) |->
             Ev("error_no_cc", 0, 0)]
     ELSE << >>)

\* what tehub_dumpCCValues reports around the lines of its loop: the
\* heading, the lines and, with num_dumped the number of lines, the error
\* if (!num_dumped): TE3_hub.ino 363-380
dumpReport(lines) ==
    LET num_dumped == Len(lines)
    IN  <<Ev("dump_header", 0, 0)>> \o lines \o
        (IF num_dumped = 0 THEN <<Ev("error_no_cc", 0, 0)>> ELSE << >>)

\* tehub_dumpCCValues(where): TE3_hub.ino 361-383
tehub_dumpCCValues(m) == dumpReport(dumpLines(TEHUB_CC_BASE, m))

\* mutant: reboot_teensy() returns after its warning
reboot_teensy_returns(m) ==
    Result(TRUE, TRUE, m, <<Ev("warning_reboot", 0, 0)>>)

\* reboot_teensy(): TE3_hub.ino 324-331; while (1) never returns
reboot_teensy(m) ==
    Result(FALSE, FALSE, m, <<Ev("warning_reboot", 0, 0)>>)

\* mutant: RESET puts the mix levels back to their power-on values
tehub_reset_levels(m) ==
    Result(TRUE, TRUE, PowerOn, <<Ev("reset_not_implemented", 0, 0)>>)

\* case TEHUB_CC_RESET of tehub_dispatchCC
tehub_reset(m) ==
    Result(TRUE, TRUE, m, <<Ev("reset_not_implemented", 0, 0)>>)

\* mutant: a command the switch does not know is taken as done
tehub_dispatchCC_lenient(cc, val, m) ==
    CASE cc = TEHUB_CC_DUMP ->
            Result(TRUE, TRUE, m, tehub_dumpCCValues(m))
      [] cc = TEHUB_CC_REBOOT -> reboot_teensy(m)
      [] cc = TEHUB_CC_RESET    -> tehub_reset(m)
      [] cc = TEHUB_CC_MIX_IN   -> setMixLevel(MIX_CHANNEL_IN, val, m)
      [] cc = TEHUB_CC_MIX_USB  -> setMixLevel(MIX_CHANNEL_USB, val, m)
      [] cc = TEHUB_CC_MIX_LOOP -> setMixLevel(MIX_CHANNEL_LOOP, val, m)
      [] cc = TEHUB_CC_MIX_AUX  -> setMixLevel(MIX_CHANNEL_AUX, val, m)
      [] OTHER ->
            Result(TRUE, TRUE, m, <<Ev("error_unknown_cc", cc, val)>>)

\* mutant: an unknown command stops the program
tehub_dispatchCC_fatal(cc, val, m) ==
    CASE cc = TEHUB_CC_DUMP ->
            Result(TRUE, TRUE, m, tehub_dumpCCValues(m))
      [] cc = TEHUB_CC_REBOOT -> reboot_teensy(m)
      [] cc = TEHUB_CC_RESET    -> tehub_reset(m)
      [] cc = TEHUB_CC_MIX_IN   -> setMixLevel(MIX_CHANNEL_IN, val, m)
      [] cc = TEHUB_CC_MIX_USB  -> setMixLevel(MIX_CHANNEL_USB, val, m)
      [] cc = TEHUB_CC_MIX_LOOP -> setMixLevel(MIX_CHANNEL_LOOP, val, m)
      [] cc = TEHUB_CC_MIX_AUX  -> setMixLevel(MIX_CHANNEL_AUX, val, m)
      [] OTHER ->
            Result(FALSE, FALSE, m, <<Ev("error_unknown_cc", cc, val)>>)

\* tehub_dispatchCC(cc, val): TE3_hub.ino 386-404.  The REBOOT case has no
\* break: were reboot_teensy to return, the RESET case would run after it.
tehub_dispatchCC(cc, val, m) ==
    CASE cc = TEHUB_CC_DUMP ->
            Result(TRUE, TRUE, m, tehub_dumpCCValues(m))
      [] cc = TEHUB_CC_REBOOT ->
            LET r == reboot_teensy(m)
            IN  IF r.returns
                THEN LET t == tehub_reset(r.m)
                     IN  Result(TRUE, t.ret, t.m, r.events \o t.events)
                ELSE r
      [] cc = TEHUB_CC_RESET    -> tehub_reset(m)
      [] cc = TEHUB_CC_MIX_IN   -> setMixLevel(MIX_CHANNEL_IN, val, m)
      [] cc = TEHUB_CC_MIX_USB  -> setMixLevel(MIX_CHANNEL_USB, val, m)
      [] cc = TEHUB_CC_MIX_LOOP -> setMixLevel(MIX_CHANNEL_LOOP, val, m)
      [] cc = TEHUB_CC_MIX_AUX  -> setMixLevel(MIX_CHANNEL_AUX, val, m)
      [] OTHER ->
            Result(TRUE, FALSE, m, <<Ev("error_unknown_cc", cc, val)>>)

\* sgtl5000.dispatchCC(cc, val): declared in sgtl5000.h, returns bool.  It
\* touches no state of TE3_hub.ino; ok is the value it returns.
sgtl5000_dispatchCC(cc, val, m, ok) ==
    Result(TRUE, ok, m, << >>)

----------------------------------------------------------------------------
\* The framer

\* the macros of TE3_hub.ino 408-410, on a uint8_t
isCC(byte) == (byte % 16) = MIDI_TYPE_CC
knownCable(byte) ==
    ((byte \div 16) = SGTL5000_CABLE) \/ ((byte \div 16) = TEHUB_CABLE)
\* mutant: the type in the leading byte is not tested
knownCableCC_anyType(byte) == knownCable(byte)
knownCableCC(byte) == isCC(byte) /\ knownCable(byte)

\* msgUnion of teMIDI.h over the four bytes of msg32 (little endian: msg[1]
\* is buf[0]); byte 0 = (cable << 4) | type, byte 1 carries the channel,
\* bytes 2 and 3 are param1 and param2
msg_cable(msg) == msg[1] \div 16
msg_type(msg) == msg[1] % 16
msg_channel(msg) == msg[2] % 16
msg_param1(msg) == msg[3]
msg_param2(msg) == msg[4]

\* buf[len++] = byte, on the live part of the buffer
store(b, n, byte) == SubSeq(b, 1, n) \o <<byte>>

\* mutant: the TEHUB branch does not test the channel
dispatchFrame_noChannel(msg, m, ok) ==
    IF  /\ msg_cable(msg) = SGTL5000_CABLE
        /\ msg_channel(msg) = SGTL5000_CHANNEL
        /\ msg_type(msg) = MIDI_TYPE_CC
    THEN LET r == sgtl5000_dispatchCC(msg_param1(msg), msg_param2(msg), m, ok)
         IN  Result(r.returns, r.ret, r.m,
                    <<Ev("sgtl5000_dispatchCC", msg_param1(msg), msg_param2(msg))>>
                    \o r.events
                    \o <<Ev("sgtl5000_return", IF r.ret THEN 1 ELSE 0, 0)>>)
    ELSE IF /\ msg_cable(msg) = TEHUB_CABLE
            /\ msg_type(msg) = MIDI_TYPE_CC
    THEN LET r == tehub_dispatchCC(msg_param1(msg), msg_param2(msg), m)
         IN  Result(r.returns, r.ret, r.m,
                    <<Ev("tehub_dispatchCC", msg_param1(msg), msg_param2(msg))>>
                    \o r.events
                    \o (IF r.returns
                        THEN <<Ev("tehub_return", IF r.ret THEN 1 ELSE 0, 0)>>
                        ELSE << >>))
    ELSE Result(TRUE, FALSE, m, <<Ev("error_unexpected_midi", 0, 0)>>)

\* mutant: the command and the value are passed the wrong way round
dispatchFrame_swapArgs(msg, m, ok) ==
    IF  /\ msg_cable(msg) = SGTL5000_CABLE
        /\ msg_channel(msg) = SGTL5000_CHANNEL
        /\ msg_type(msg) = MIDI_TYPE_CC
    THEN LET r == sgtl5000_dispatchCC(msg_param2(msg), msg_param1(msg), m, ok)
         IN  Result(r.returns, r.ret, r.m,
                    <<Ev("sgtl5000_dispatchCC", msg_param2(msg), msg_param1(msg))>>
                    \o r.events
                    \o (IF r.returns
                        THEN <<Ev("sgtl5000_return", IF r.ret THEN 1 ELSE 0, 0)>>
                        ELSE << >>))
    ELSE IF /\ msg_cable(msg) = TEHUB_CABLE
            /\ msg_channel(msg) = TEHUB_CHANNEL
            /\ msg_type(msg) = MIDI_TYPE_CC
    THEN LET r == tehub_dispatchCC(msg_param2(msg), msg_param1(msg), m)
         IN  Result(r.returns, r.ret, r.m,
                    <<Ev("tehub_dispatchCC", msg_param2(msg), msg_param1(msg))>>
                    \o r.events
                    \o (IF r.returns
                        THEN <<Ev("tehub_return", IF r.ret THEN 1 ELSE 0, 0)>>
                        ELSE << >>))
    ELSE Result(TRUE, FALSE, m, <<Ev("error_unexpected_midi", 0, 0)>>)

\* the frame is complete: TE3_hub.ino 448-468
dispatchFrame(msg, m, ok) ==
    IF  /\ msg_cable(msg) = SGTL5000_CABLE
        /\ msg_channel(msg) = SGTL5000_CHANNEL
        /\ msg_type(msg) = MIDI_TYPE_CC
    THEN LET r == sgtl5000_dispatchCC(msg_param1(msg), msg_param2(msg), m, ok)
         IN  Result(r.returns, r.ret, r.m,
                    <<Ev("sgtl5000_dispatchCC", msg_param1(msg), msg_param2(msg))>>
                    \o r.events
                    \o (IF r.returns
                        THEN <<Ev("sgtl5000_return", IF r.ret THEN 1 ELSE 0, 0)>>
                        ELSE << >>))
    ELSE IF /\ msg_cable(msg) = TEHUB_CABLE
            /\ msg_channel(msg) = TEHUB_CHANNEL
            /\ msg_type(msg) = MIDI_TYPE_CC
    THEN LET r == tehub_dispatchCC(msg_param1(msg), msg_param2(msg), m)
         IN  Result(r.returns, r.ret, r.m,
                    <<Ev("tehub_dispatchCC", msg_param1(msg), msg_param2(msg))>>
                    \o r.events
                    \o (IF r.returns
                        THEN <<Ev("tehub_return", IF r.ret THEN 1 ELSE 0, 0)>>
                        ELSE << >>))
    ELSE Result(TRUE, FALSE, m, <<Ev("error_unexpected_midi", 0, 0)>>)

\* mutant: a byte that fails the test is dropped without a report
awaitingHeader_quiet(byte, n, b, m) ==
    IF knownCableCC(byte)
    THEN [len |-> n + 1, buf |-> store(b, n, byte), m |-> m,
          events |-> << >>, returns |-> TRUE]
    ELSE [len |-> n, buf |-> b, m |-> m,
          events |-> << >>, returns |-> TRUE]

\* len == 0 in the while loop of handleSerialMidi: TE3_hub.ino 432-442.
\* The result is the framer's and the mixer's state after the byte, what
\* was reported, and whether the iteration came to its end.
awaitingHeader(byte, n, b, m) ==
    IF knownCableCC(byte)
    THEN [len |-> n + 1, buf |-> store(b, n, byte), m |-> m,
          events |-> << >>, returns |-> TRUE]
    ELSE [len |-> n, buf |-> b, m |-> m,
          events |-> <<Ev("error_sync", byte, 0)>>, returns |-> TRUE]

\* mutant: a legal header byte inside a frame starts the frame again
accumulating_resync(byte, n, b, m, ok) ==
    LET nb == store(b, n, byte)
        nn == n + 1
    IN  IF knownCableCC(byte)
        THEN [len |-> 1, buf |-> <<byte>>, m |-> m,
              events |-> << >>, returns |-> TRUE]
        ELSE IF nn = 4
        THEN LET r == dispatchFrame(nb, m, ok)
             IN  IF r.returns
                 THEN [len |-> 0, buf |-> << >>, m |-> r.m,
                       events |-> r.events, returns |-> TRUE]
                 ELSE [len |-> nn, buf |-> nb, m |-> r.m,
                       events |-> r.events, returns |-> FALSE]
        ELSE [len |-> nn, buf |-> nb, m |-> m,
              events |-> << >>, returns |-> TRUE]

\* mutant: len is set to 0 only when the dispatcher returned success
accumulating_keep(byte, n, b, m, ok) ==
    LET nb == store(b, n, byte)
        nn == n + 1
    IN  IF nn = 4
        THEN LET r == dispatchFrame(nb, m, ok)
             IN  IF r.returns /\ r.ret
                 THEN [len |-> 0, buf |-> << >>, m |-> r.m,
                       events |-> r.events, returns |-> TRUE]
                 ELSE [len |-> nn, buf |-> nb, m |-> r.m,
                       events |-> r.events, returns |-> r.returns]
        ELSE [len |-> nn, buf |-> nb, m |-> m,
              events |-> << >>, returns |-> TRUE]

\* len != 0 in the while loop of handleSerialMidi: TE3_hub.ino 443-472.
\* After len = 0 no byte of msg32 is live: each is written again before
\* the next frame is decoded.
accumulating(byte, n, b, m, ok) ==
    LET nb == store(b, n, byte)
        nn == n + 1
    IN  IF nn = 4
        THEN LET r == dispatchFrame(nb, m, ok)
             IN  IF r.returns
                 THEN [len |-> 0, buf |-> << >>, m |-> r.m,
                       events |-> r.events, returns |-> TRUE]
                 ELSE [len |-> nn, buf |-> nb, m |-> r.m,
                       events |-> r.events, returns |-> FALSE]
        ELSE [len |-> nn, buf |-> nb, m |-> m,
              events |-> << >>, returns |-> TRUE]

\* the body of the while loop of handleSerialMidi for one byte:
\* TE3_hub.ino 430-472
handleByte(byte, n, b, m, ok) ==
    IF n = 0
    THEN awaitingHeader(byte, n, b, m)
    ELSE accumulating(byte, n, b, m, ok)

----------------------------------------------------------------------------
\* The SGTL5000 control object (sgtl5000.h).  The header declares the
\* methods and the automation variables; their bodies (sgtl5000.cpp) and the
\* command numbers (sgtl5000midi.h) are not among the sources and follow
\* the specification: Bus Register Accessor 4.1, Ramp Engine 4.3, Command
\* Dispatch Table 4.4.

\* uint8_t m_band_value[5], m_band_target[5]: sgtl5000.h 321-322
NUM_EQ_BANDS == 5
\* setEqBand(band_num, val): 0..95 (0x5F), sgtl5000.h 284
EQ_BAND_MAX == 95
\* reset default is 47 (0x2f) = 0 db: sgtl5000.h 288
EQ_BAND_DEFAULT == 47
\* ramped in 0.5db, increments of 2 in the uint8_t values: sgtl5000.h 50
EQ_QUANTUM == 2
\* setMicGain(val): 0..3, sgtl5000.h 81
MIC_GAIN_MAX == 3

\* command numbers of sgtl5000midi.h: one parameter that is written at once
\* and the five EQ bands, command 5 being the first band
SGTL_CC_MIC_GAIN == 4
SGTL_CC_EQ_BAND0 == 5

Bands == 0 .. (NUM_EQ_BANDS - 1)

\* the object's state: the automation variables, the EQ band registers of
\* the chip and the register field of the mic gain
Sgtl(bv, bt, ia, eq, mic) ==
    [m_band_value |-> bv, m_band_target |-> bt, m_in_automation |-> ia,
     eq_reg |-> eq, mic_reg |-> mic]

\* the result of a method: its return value, the object after it, the bus
\* writes and reports it made
SgResult(ret, s, events) == [ret |-> ret, sg |-> s, events |-> events]

\* after enable() and setDefaults(): every band at its reset default, no
\* band in automation
SgtlDefaults ==
    Sgtl([b \in Bands |-> EQ_BAND_DEFAULT], [b \in Bands |-> EQ_BAND_DEFAULT],
         {}, [b \in Bands |-> EQ_BAND_DEFAULT], 0)

\* setMicGain(val): validated against [0, max], then written at once
SGTL5000_setMicGain(val, s) ==
    IF val > MIC_GAIN_MAX
    THEN SgResult(FALSE, s, <<Ev("error_value", SGTL_CC_MIC_GAIN, val)>>)
    ELSE SgResult(TRUE, [s EXCEPT !.mic_reg = val],
                  <<Ev("write_mic", 0, val)>>)

\* mutant: the setter writes the band's register at once
SGTL5000_setEqBand_direct(band_num, val, s) ==
    IF band_num >= NUM_EQ_BANDS \/ val > EQ_BAND_MAX
    THEN SgResult(FALSE, s, <<Ev("error_value", band_num, val)>>)
    ELSE SgResult(TRUE,
                  [s EXCEPT !.m_band_target[band_num] = val,
                            !.m_band_value[band_num] = val,
                            !.eq_reg[band_num] = val,
                            !.m_in_automation = @ \ {band_num}],
                  <<Ev("write_eq", band_num, val)>>)

\* mutant: the setter marks the band busy whatever the new target is
SGTL5000_setEqBand_busy(band_num, val, s) ==
    IF band_num >= NUM_EQ_BANDS \/ val > EQ_BAND_MAX
    THEN SgResult(FALSE, s, <<Ev("error_value", band_num, val)>>)
    ELSE SgResult(TRUE,
                  [s EXCEPT !.m_band_target[band_num] = val,
                            !.m_in_automation = @ \cup {band_num}],
                  << >>)

\* setEqBand(band_num, val) as the dispatcher calls it (force = false): the
\* value is validated, the target replaced, and the band's bit of
\* m_in_automation set exactly if the band is not at its target; no
\* register is written
SGTL5000_setEqBand(band_num, val, s) ==
    IF band_num >= NUM_EQ_BANDS \/ val > EQ_BAND_MAX
    THEN SgResult(FALSE, s, <<Ev("error_value", band_num, val)>>)
    ELSE SgResult(TRUE,
                  [s EXCEPT !.m_band_target[band_num] = val,
                            !.m_in_automation =
                                IF s.m_band_value[band_num] # val
                                THEN @ \cup {band_num}
                                ELSE @ \ {band_num}],
                  << >>)

\* SGTL5000::dispatchCC(cc, val): the table lookup; an unknown command
\* fails distinctly from a rejected value
SGTL5000_dispatchCC(cc, val, s) ==
    IF cc = SGTL_CC_MIC_GAIN
    THEN SGTL5000_setMicGain(val, s)
    ELSE IF cc >= SGTL_CC_EQ_BAND0 /\ cc < SGTL_CC_EQ_BAND0 + NUM_EQ_BANDS
    THEN SGTL5000_setEqBand(cc - SGTL_CC_EQ_BAND0, val, s)
    ELSE SgResult(FALSE, s, <<Ev("error_unknown_sgtl_cc", cc, val)>>)

\* uint16_t registers and values: sgtl5000.h 327-332
REG_BITS == 16

\* bit i of x
Bit(x, i) == (x \div (2 ^ i)) % 2

\* x & y, x | y and ~x on REG_BITS bits
RECURSIVE BitAndFrom(_, _, _)
BitAndFrom(i, x, y) ==
    IF i >= REG_BITS THEN 0
    ELSE (2 ^ i) * (Bit(x, i) * Bit(y, i)) + BitAndFrom(i + 1, x, y)

BitAnd(x, y) == BitAndFrom(0, x, y)
BitNot(x) == (2 ^ REG_BITS - 1) - x
BitOr(x, y) == x + y - BitAnd(x, y)

\* the result of a bus operation on one register: what is returned and
\* what the register holds afterwards
BusResult(ret, reg) == [ret |-> ret, reg |-> reg]

\* write(reg_num, val): the register takes val if the bus transaction
\* succeeds (bus_ok); returns 0 on failure, 1 on success
SGTL5000_write(reg, val, bus_ok) ==
    BusResult(bus_ok, IF bus_ok THEN val ELSE reg)

\* read(reg_num): the register's value, or 0 if the bus transaction fails;
\* the caller cannot tell the two apart
SGTL5000_read(reg, bus_ok) == IF bus_ok THEN reg ELSE 0

\* mutant: val is not restricted to the mask
SGTL5000_modify_unmasked(reg, val, mask, read_ok, write_ok) ==
    SGTL5000_write(reg,
                   BitOr(BitAnd(SGTL5000_read(reg, read_ok), BitNot(mask)),
                         val),
                   write_ok)

\* mutant: a failed read makes modify fail
SGTL5000_modify_checked(reg, val, mask, read_ok, write_ok) ==
    IF read_ok
    THEN SGTL5000_write(reg,
                        BitOr(BitAnd(SGTL5000_read(reg, read_ok), BitNot(mask)),
                              BitAnd(val, mask)),
                        write_ok)
    ELSE BusResult(FALSE, reg)

\* modify(reg_num, val, mask): read, replace the bits of mask by those of
\* val, write; returns what the write returns
SGTL5000_modify(reg, val, mask, read_ok, write_ok) ==
    SGTL5000_write(reg,
                   BitOr(BitAnd(SGTL5000_read(reg, read_ok), BitNot(mask)),
                         BitAnd(val, mask)),
                   write_ok)

\* mutant: a tick puts the band at its target at once
rampStep_jump(current, target, quantum) == target

\* mutant: the last step before the target is left out
rampStep_short(current, target, quantum) ==
    IF current < target
    THEN (IF target - current <= quantum THEN current ELSE current + quantum)
    ELSE (IF current - target <= quantum THEN current ELSE current - quantum)

\* one tick of one ramp: current moves toward target by one quantum, or
\* snaps to target if the distance left is not more than one quantum
rampStep(current, target, quantum) ==
    IF current < target
    THEN (IF target - current <= quantum THEN target ELSE current + quantum)
    ELSE (IF current - target <= quantum THEN target ELSE current - quantum)

\* mutant: the bit of a band that has reached its target stays set
SGTL5000_handleEqAutomation_sticky(band_num, s, quantum) ==
    IF band_num \in s.m_in_automation
    THEN LET v == rampStep(s.m_band_value[band_num],
                           s.m_band_target[band_num], quantum)
         IN  SgResult(TRUE,
                      [s EXCEPT !.m_band_value[band_num] = v,
                                !.eq_reg[band_num] = v],
                      <<Ev("write_eq", band_num, v)>>)
    ELSE SgResult(TRUE, s, << >>)

\* handleEqAutomation(band_num): a band in automation advances by one
\* quantum, the new value is written to its register, and its bit is
\* cleared when the value has reached the target
SGTL5000_handleEqAutomation(band_num, s, quantum) ==
    IF band_num \in s.m_in_automation
    THEN LET v == rampStep(s.m_band_value[band_num],
                           s.m_band_target[band_num], quantum)
         IN  SgResult(TRUE,
                      [s EXCEPT !.m_band_value[band_num] = v,
                                !.eq_reg[band_num] = v,
                                !.m_in_automation =
                                    IF v = s.m_band_target[band_num]
                                    THEN @ \ {band_num} ELSE @],
                      <<Ev("write_eq", band_num, v)>>)
    ELSE SgResult(TRUE, s, << >>)

\* the bands from band_num on, in order
RECURSIVE automateFrom(_, _, _)
automateFrom(band_num, s, quantum) ==
    IF band_num >= NUM_EQ_BANDS THEN SgResult(TRUE, s, << >>)
    ELSE LET r == SGTL5000_handleEqAutomation(band_num, s, quantum)
             t == automateFrom(band_num + 1, r.sg, quantum)
         IN  SgResult(TRUE, t.sg, r.events \o t.events)

\* SGTL5000::loop(): one tick of the ramp engine over every band
SGTL5000_loop(s, quantum) ==
    LET r == automateFrom(0, s, quantum)
    IN  SgResult(TRUE, r.sg, <<Ev("tick", 0, 0)>> \o r.events)

----------------------------------------------------------------------------
\* loop(): TE3_hub.ino 241-315

\* the program's state as one value: the framer's statics, the mixer, the
\* SGTL5000 object, whether reboot_teensy() was entered, what was reported
Hub(n, b, m, s, h, events) ==
    [len |-> n, buf |-> b, m |-> m, sg |-> s, halted |-> h,
     events |-> events]

\* the calls sgtl5000.dispatchCC(cc, val) among the events of one byte
SgtlCalls(events) ==
    SelectSeq(events, LAMBDA e : e.kind = "sgtl5000_dispatchCC")

\* the state after a byte: r is what handleByte made of the byte, d what
\* the SGTL5000 object made of the call, if there was one; what the object
\* reports comes between the call and its return
afterByte(byte, st, calls, d, r) ==
    Hub(r.len, r.buf, r.m, d.sg, ~r.returns,
        st.events \o <<Ev("read", byte, st.len)>> \o
        (IF calls = << >>
         THEN r.events
         ELSE <<Head(r.events)>> \o d.events \o Tail(r.events)))

\* the byte handled with d.ret as the value sgtl5000.dispatchCC returns
dispatched(byte, st, calls, d) ==
    afterByte(byte, st, calls, d,
              handleByte(byte, st.len, st.buf, st.m, d.ret))

\* the call sgtl5000.dispatchCC(cc, val) of the byte, if any, made on the
\* SGTL5000 object
called(byte, st, calls) ==
    dispatched(byte, st, calls,
               IF calls = << >>
               THEN SgResult(TRUE, st.sg, << >>)
               ELSE SGTL5000_dispatchCC(calls[1].a, calls[1].b, st.sg))

\* one iteration of the while loop of handleSerialMidi on the whole
\* program: the byte is handled as handleByte does, and a call
\* sgtl5000.dispatchCC(cc, val) it leads to acts on the SGTL5000 object and
\* returns what that object's dispatcher returns
readByte(byte, st) ==
    called(byte, st,
           SgtlCalls(handleByte(byte, st.len, st.buf, st.m, TRUE).events))

\* handleSerialMidi(): TE3_hub.ino 413-474, bytes being what the serial port
\* has available until available() first returns 0; nothing is read once
\* reboot_teensy() was entered
RECURSIVE handleSerialMidi(_, _)
handleSerialMidi(bytes, st) ==
    IF bytes = << >> \/ st.halted
    THEN st
    ELSE handleSerialMidi(Tail(bytes), readByte(Head(bytes), st))

\* the iteration of loop() as a record: mid is the state between the two
\* calls, end the state when loop() returns, or the state in which
\* reboot_teensy() spins
Iteration(mid, end) == [mid |-> mid, end |-> end]

\* the state a after the tick t
ticked(a, t) == [a EXCEPT !.sg = t.sg, !.events = @ \o t.events]

\* sgtl5000.loop(), TE3_hub.ino 313, reached if handleSerialMidi() returned
tick(a) ==
    IF a.halted
    THEN Iteration(a, a)
    ELSE Iteration(a, ticked(a, SGTL5000_loop(a.sg, EQ_QUANTUM)))

\* mutant: the tick is left out when the iteration read a byte
loop_skipTick(bytes, st) ==
    LET a == handleSerialMidi(bytes, st)
    IN  IF bytes = << >> THEN tick(a) ELSE Iteration(a, a)

\* mutant: an iteration that finds no byte gives up the frame it was in
loop_timeout(bytes, st) ==
    tick(IF bytes = << >>
         THEN [st EXCEPT !.len = 0, !.buf = << >>]
         ELSE handleSerialMidi(bytes, st))

\* loop(): handleSerialMidi() and then sgtl5000.loop(), TE3_hub.ino 312-313
loop(bytes, st) == tick(handleSerialMidi(bytes, st))

----------------------------------------------------------------------------
\* The state machine

\* the test the specification gives for the leading byte of a frame: the CC
\* type tag in the low nibble, one of the two cables in the high nibble
LegalHeader(byte) ==
    /\ byte % 16 = MIDI_TYPE_CC
    /\ byte \div 16 \in {SGTL5000_CABLE, TEHUB_CABLE}

\* how many reports of one kind a step made
Count(events, kind) ==
    Cardinality({i \in DOMAIN events : events[i].kind = kind})

\* the calls setMixLevel(c, v) among the events that did not fail
SetCalls(events, c) ==
    {events[i].b : i \in {j \in DOMAIN events :
                            /\ events[j].kind = "setMixLevel"
                            /\ events[j].a = c
                            /\ Count(events, "error_mix_channel") = 0}}

SegStart == [n |-> 0, bad |-> 0, syncs |-> 0, closed |-> FALSE]

NoOut == [byte |-> -1, at |-> -1, events |-> << >>]

StartupDefault(c) ==
    CASE c = MIX_CHANNEL_IN   -> DEFAULT_VOLUME_IN
      [] c = MIX_CHANNEL_USB  -> DEFAULT_VOLUME_USB
      [] c = MIX_CHANNEL_LOOP -> DEFAULT_VOLUME_LOOP
      [] c = MIX_CHANNEL_AUX  -> DEFAULT_VOLUME_AUX

\* the program's state now
CurrentHub ==
    Hub(len, buf, Mixer(mix_level, gain_L, gain_R), sg, halted, << >>)

\* the state setup() leaves
StartHub == Hub(0, << >>, setup, SgtlDefaults, FALSE, << >>)

\* no iteration of loop() has run yet
NoIteration ==
    [ran |-> FALSE, bytes |-> << >>, start |-> StartHub, mid |-> StartHub,
     end |-> StartHub]

\* no method was called on its own
NoProbe == [kind |-> "none"]

\* the program when setup() has finished and loop() runs for the first time
ProgramInit ==
    /\ len = 0
    /\ buf = << >>
    /\ mix_level = setup.mix_level
    /\ gain_L = setup.gain_L
    /\ gain_R = setup.gain_R
    /\ halted = FALSE
    /\ out = NoOut
    /\ last_set = [c \in Channels |-> StartupDefault(c)]
    /\ seg = SegStart
    /\ sg = SgtlDefaults
    /\ it = NoIteration
    /\ stalled = FALSE

\* the state when setup() has finished and loop() runs for the first time
Init ==
    /\ ProgramInit
    /\ probe = NoProbe

\* handleSerialMidi: MIDI_SERIAL_PORT.available() holds and read() returns
\* byte; ok is what sgtl5000.dispatchCC returns should the byte lead to it
HandleSerialMidi ==
    /\ ~halted
    /\ \E byte \in Bytes, ok \in (IF len = 3 THEN BOOLEAN ELSE {TRUE}) :
         LET r == handleByte(byte, len, buf,
                             Mixer(mix_level, gain_L, gain_R), ok)
             base == IF seg.closed THEN SegStart ELSE seg
             nsync == Count(r.events, "error_sync")
         IN  /\ base.syncs + nsync <= MaxSyncRun
             /\ len' = r.len
             /\ buf' = r.buf
             /\ mix_level' = r.m.mix_level
             /\ gain_L' = r.m.gain_L
             /\ gain_R' = r.m.gain_R
             /\ halted' = ~r.returns
             /\ out' = [byte |-> byte, at |-> len, events |-> r.events]
             /\ last_set' =
                  [c \in Channels |->
                     IF SetCalls(r.events, c) # {}
                     THEN CHOOSE v \in SetCalls(r.events, c) : TRUE
                     ELSE last_set[c]]
             /\ seg' = [n |-> base.n + 1,
                        bad |-> base.bad +
                                (IF len = 0 /\ ~LegalHeader(byte) THEN 1 ELSE 0),
                        syncs |-> base.syncs + nsync,
                        closed |-> (len = 3)]
    /\ UNCHANGED <<sg, it, stalled, probe>>

Next == HandleSerialMidi

Spec == Init /\ [][Next]_vars

----------------------------------------------------------------------------
\* The program by iterations of loop()

\* What the serial port has available during one iteration of loop(): no
\* byte, a byte that fails the header test, the specification's frame
\* [0x0B, 0x02, 0x05, 0x32] whole and in two halves, a second target for the
\* same band and one for the next band, a parameter that is written at once,
\* a value above its maximum, an unknown command of either domain, a frame
\* of neither domain, a mixer level, two frames at once, and the restart
\* command followed by a further frame.
Chunks ==
    { << >>,
      <<43>>,
      <<11, 2, 5, 50>>,
      <<11, 2>>,
      <<5, 50>>,
      <<11, 2, 5, 44>>,
      <<11, 2, 6, 48>>,
      <<11, 2, 4, 2>>,
      <<11, 2, 5, 96>>,
      <<11, 2, 99, 1>>,
      <<27, 1, 9, 0>>,
      <<27, 2, 4, 0>>,
      <<27, 1, 4, 100>>,
      <<11, 2, 4, 2, 11, 2, 5, 50>>,
      <<27, 1, 2, 0, 11, 2, 5, 50>> }

\* one iteration of loop(), bytes being available to it
LoopIteration ==
    /\ ~halted
    /\ \E bytes \in (IF stalled THEN {<< >>} ELSE Chunks) :
         \E r \in {loop(bytes, CurrentHub)} :
             /\ len' = r.end.len
             /\ buf' = r.end.buf
             /\ mix_level' = r.end.m.mix_level
             /\ gain_L' = r.end.m.gain_L
             /\ gain_R' = r.end.m.gain_R
             /\ halted' = r.end.halted
             /\ sg' = r.end.sg
             /\ it' = [ran |-> TRUE, bytes |-> bytes, start |-> CurrentHub,
                       mid |-> r.mid, end |-> r.end]
    /\ UNCHANGED <<out, last_set, seg, stalled, probe>>

\* the sender stops: from now on available() returns 0; no iteration of
\* loop() has run since
Stall ==
    /\ ~stalled
    /\ stalled' = TRUE
    /\ it' = [it EXCEPT !.ran = FALSE]
    /\ UNCHANGED <<len, buf, mix_level, gain_L, gain_R, halted, out,
                   last_set, seg, sg, probe>>

LoopNext == LoopIteration \/ Stall

LoopSpec == Init /\ [][LoopNext]_vars

----------------------------------------------------------------------------
\* The ramp engine on its own: one band with a given value and target, and
\* ticks with a given quantum

\* at most this many ticks are made
MaxTicks == 110

\* the SGTL5000 object with band band_num at current and on its way to
\* target
Ramping(band_num, current, target) ==
    [SgtlDefaults EXCEPT !.m_band_value[band_num] = current,
                         !.eq_reg[band_num] = current,
                         !.m_band_target[band_num] = target,
                         !.m_in_automation =
                             IF current # target THEN {band_num} ELSE {}]

\* band 0 at 0 with target 100, quantum 1, no tick made yet
RampInit ==
    /\ ProgramInit
    /\ probe = [kind |-> "ramp", s |-> Ramping(0, 0, 100), quantum |-> 1,
                t |-> 0]

\* sgtl5000.loop() with the probe's quantum
RampTick ==
    /\ probe.kind = "ramp"
    /\ probe.t < MaxTicks
    /\ probe' = [probe EXCEPT !.s = SGTL5000_loop(@, probe.quantum).sg,
                              !.t = @ + 1]
    /\ UNCHANGED <<len, buf, mix_level, gain_L, gain_R, halted, out,
                   last_set, seg, sg, it, stalled>>

RampNext == RampTick

RampSpec == RampInit /\ [][RampNext]_vars

----------------------------------------------------------------------------
\* tehub_dumpCCValues on its own.  tehub_writeOnlyCC is a function of
\* teCommon.h, which is not among the sources: the dump is run with every
\* set of write-only commands, the one that leaves no command to print
\* among them.

\* the mixers the dump is run on: the one setup() leaves, and one with
\* every level at its maximum
DumpMixers ==
    {setup,
     Mixer([c \in Channels |-> 127], [c \in Channels |-> 127],
           [c \in Channels |-> 127])}

DumpProbe ==
    /\ probe.kind = "none"
    /\ \E writeOnly \in SUBSET (TEHUB_CC_BASE .. TEHUB_CC_MAX),
          m \in DumpMixers :
         probe' = [kind |-> "dump", writeOnly |-> writeOnly, m |-> m,
                   events |-> dumpReport(dumpLinesFor(TEHUB_CC_BASE, m,
                                                      writeOnly))]
    /\ UNCHANGED <<len, buf, mix_level, gain_L, gain_R, halted, out,
                   last_set, seg, sg, it, stalled>>

DumpNext == DumpProbe

DumpSpec == Init /\ [][DumpNext]_vars

----------------------------------------------------------------------------
\* modify on its own: one register, a value, a mask, and a bus on which
\* the read and the write each succeed or fail

\* register contents, values and masks: none, one, the low byte, alternate
\* nibbles, the high byte and all of the bits
RegValues == {0, 1, 255, 3855, 65280, 65535}

ModifyProbe ==
    /\ probe.kind = "none"
    /\ \E reg \in RegValues, val \in RegValues, mask \in RegValues,
          read_ok \in BOOLEAN, write_ok \in BOOLEAN :
         probe' = [kind |-> "modify", reg |-> reg, val |-> val,
                   mask |-> mask, read_ok |-> read_ok,
                   write_ok |-> write_ok,
                   result |-> SGTL5000_modify(reg, val, mask, read_ok,
                                              write_ok)]
    /\ UNCHANGED <<len, buf, mix_level, gain_L, gain_R, halted, out,
                   last_set, seg, sg, it, stalled>>

ModifyNext == ModifyProbe

ModifySpec == Init /\ [][ModifyNext]_vars

----------------------------------------------------------------------------
\* The stereo setters of sgtl5000.h (88-163), each on its own.  The left
\* and the right setter are declared only; they "return false if they fail
\* to write to the SGTL5000" (sgtl5000.h 60), ok telling whether the write
\* goes through.

\* the parameters that have a left and a right setter and a stereo one
StereoParams ==
    {"LineInLevel", "DacVolume", "LineOutLevel", "HeadphoneVolume"}

\* the left and the right value of each parameter
Stereo(l, r) == [left |-> l, right |-> r]

\* set<Param>Left(val) and set<Param>Right(val): on success the channel
\* holds val, on failure it is left as it was
SGTL5000_setChannel(side, param, val, s, ok) ==
    SgResult(ok,
             IF ok THEN [s EXCEPT ![side][param] = val] ELSE s,
             <<Ev(side, val, IF ok THEN 1 ELSE 0)>>)

\* mutant: both setters are called, as with & in place of &&
setStereo_both(param, val, s, left_ok, right_ok) ==
    LET l == SGTL5000_setChannel("left", param, val, s, left_ok)
        r == SGTL5000_setChannel("right", param, val, l.sg, right_ok)
    IN  SgResult(l.ret /\ r.ret, r.sg, l.events \o r.events)

\* mutant: the left channel is put back when the right setter fails
setStereo_rollback(param, val, s, left_ok, right_ok) ==
    LET l == SGTL5000_setChannel("left", param, val, s, left_ok)
        r == SGTL5000_setChannel("right", param, val, l.sg, right_ok)
    IN  IF ~l.ret THEN SgResult(FALSE, l.sg, l.events)
        ELSE IF ~r.ret THEN SgResult(FALSE, s, l.events \o r.events)
        ELSE SgResult(TRUE, r.sg, l.events \o r.events)

\* return set<Param>Left(val) && set<Param>Right(val): the right setter is
\* called only if the left one returned true
setStereo(param, val, s, left_ok, right_ok) ==
    LET l == SGTL5000_setChannel("left", param, val, s, left_ok)
        r == SGTL5000_setChannel("right", param, val, l.sg, right_ok)
    IN  IF l.ret
        THEN SgResult(r.ret, r.sg, l.events \o r.events)
        ELSE SgResult(FALSE, l.sg, l.events)

\* sgtl5000.h 90-92, 103-105, 129-131, 159-161
SGTL5000_setLineInLevel(val, s, left_ok, right_ok) ==
    setStereo("LineInLevel", val, s, left_ok, right_ok)
SGTL5000_setDacVolume(val, s, left_ok, right_ok) ==
    setStereo("DacVolume", val, s, left_ok, right_ok)
SGTL5000_setLineOutLevel(val, s, left_ok, right_ok) ==
    setStereo("LineOutLevel", val, s, left_ok, right_ok)
SGTL5000_setHeadphoneVolume(val, s, left_ok, right_ok) ==
    setStereo("HeadphoneVolume", val, s, left_ok, right_ok)

\* the stereo setter of a parameter
callStereo(param, val, s, left_ok, right_ok) ==
    CASE param = "LineInLevel" ->
            SGTL5000_setLineInLevel(val, s, left_ok, right_ok)
      [] param = "DacVolume" ->
            SGTL5000_setDacVolume(val, s, left_ok, right_ok)
      [] param = "LineOutLevel" ->
            SGTL5000_setLineOutLevel(val, s, left_ok, right_ok)
      [] param = "HeadphoneVolume" ->
            SGTL5000_setHeadphoneVolume(val, s, left_ok, right_ok)

\* values within the range of every parameter (0..15 is the smallest)
StereoValues == {0, 7, 15}

\* what the two channels hold before the call
StereoBefore ==
    {Stereo([p \in StereoParams |-> l], [p \in StereoParams |-> r]) :
        l \in {3, 7}, r \in {3, 9}}

StereoProbe ==
    /\ probe.kind = "none"
    /\ \E param \in StereoParams, val \in StereoValues,
          s \in StereoBefore, left_ok \in BOOLEAN, right_ok \in BOOLEAN :
         probe' = [kind |-> "stereo", param |-> param, val |-> val,
                   before |-> s, left_ok |-> left_ok,
                   right_ok |-> right_ok,
                   result |-> callStereo(param, val, s, left_ok, right_ok)]
    /\ UNCHANGED <<len, buf, mix_level, gain_L, gain_R, halted, out,
                   last_set, seg, sg, it, stalled>>

StereoNext == StereoProbe

StereoSpec == Init /\ [][StereoNext]_vars

----------------------------------------------------------------------------
\* A byte stream delivered in pieces: each iteration of loop() finds the
\* next piece of the stream available, handles it and ticks.  probe keeps
\* what was delivered and what the framer read and reported.

\* at most this many bytes are delivered
MaxStream == 6

\* The pieces: no byte, single bytes of the frame [0x0B, 0x02, 0x05,
\* 0x32], its halves, its first three bytes, the frame whole, a byte of an
\* unknown cable, a byte of a known cable with another type, a mixer level
\* in two pieces, a frame of neither domain, the restart command, and a
\* frame with the first byte of the next.
Pieces ==
    { << >>,
      <<11>>, <<2>>, <<50>>,
      <<11, 2>>, <<5, 50>>,
      <<11, 2, 5>>,
      <<11, 2, 5, 50>>,
      <<43>>, <<1>>,
      <<27, 1>>, <<4, 100>>,
      <<27, 2, 4, 0>>,
      <<27, 1, 2, 0>>,
      <<11, 2, 5, 44, 11>> }

\* what the framer does with the bytes: the reads with the count at the
\* time, the two errors of the framer, the dispatch calls and their returns
FramerEvents(events) ==
    SelectSeq(events, LAMBDA e :
                e.kind \in {"read", "error_sync", "error_unexpected_midi",
                            "sgtl5000_dispatchCC", "tehub_dispatchCC",
                            "sgtl5000_return", "tehub_return"})

NoStream ==
    [kind |-> "stream", bytes |-> << >>, events |-> << >>, split |-> FALSE,
     idle |-> FALSE]

StreamInit ==
    /\ ProgramInit
    /\ probe = NoStream

\* one iteration of loop(), bytes being the piece available to it; split
\* tells that an iteration read bytes and ended with a frame under way, idle
\* that an iteration found no byte while a frame was under way
StreamIteration ==
    /\ ~halted
    /\ \E bytes \in Pieces :
         /\ Len(probe.bytes) + Len(bytes) <= MaxStream
         /\ \E r \in {loop(bytes, CurrentHub)} :
              /\ len' = r.end.len
              /\ buf' = r.end.buf
              /\ mix_level' = r.end.m.mix_level
              /\ gain_L' = r.end.m.gain_L
              /\ gain_R' = r.end.m.gain_R
              /\ halted' = r.end.halted
              /\ sg' = r.end.sg
              /\ probe' = [kind |-> "stream",
                           bytes |-> probe.bytes \o bytes,
                           events |-> probe.events
                                      \o FramerEvents(r.end.events),
                           split |-> probe.split
                                     \/ (bytes # << >>
                                         /\ r.end.len \in 1 .. 3),
                           idle |-> probe.idle
                                    \/ (bytes = << >> /\ len # 0)]
    /\ UNCHANGED <<out, last_set, seg, it, stalled>>

StreamNext == StreamIteration

StreamSpec == StreamInit /\ [][StreamNext]_vars

----------------------------------------------------------------------------
TypeOK ==
    /\ len \in 0 .. 4
    /\ Len(buf) = len
    /\ halted \in BOOLEAN

----------------------------------------------------------------------------
\* Vocabulary of the properties

\* the domain a complete frame belongs to: cable, channel and type of one
\* of the two domains, or neither
FrameDomain(msg) ==
    IF  /\ msg_cable(msg) = SGTL5000_CABLE
        /\ msg_channel(msg) = SGTL5000_CHANNEL
        /\ msg_type(msg) = MIDI_TYPE_CC
    THEN "sgtl5000"
    ELSE IF /\ msg_cable(msg) = TEHUB_CABLE
            /\ msg_channel(msg) = TEHUB_CHANNEL
            /\ msg_type(msg) = MIDI_TYPE_CC
         THEN "tehub"
         ELSE "none"

\* the dispatcher calls a step made, in order
DispatchCalls(events) ==
    SelectSeq(events, LAMBDA e :
                e.kind \in {"sgtl5000_dispatchCC", "tehub_dispatchCC"})

\* the call a frame of a known domain is to lead to
ExpectedCall(msg) ==
    Ev(IF FrameDomain(msg) = "sgtl5000"
       THEN "sgtl5000_dispatchCC" ELSE "tehub_dispatchCC",
       msg[3], msg[4])

IsReboot(msg) ==
    FrameDomain(msg) = "tehub" /\ msg[3] = TEHUB_CC_REBOOT

\* the step that reads the 4th byte of a well-formed frame of a known
\* domain, the framer having started in awaiting-header and read exactly one
\* byte before the frame, a byte that fails the header test
ResyncStep ==
    /\ len = 3
    /\ seg.n = 4 /\ seg.bad = 1 /\ ~seg.closed
    /\ FrameDomain(Append(buf, out'.byte)) # "none"

ResyncOutcome ==
    /\ seg'.syncs = 1
    /\ Count(out'.events, "error_unexpected_midi") = 0
    /\ DispatchCalls(out'.events) = <<ExpectedCall(Append(buf, out'.byte))>>

\* C1 as stated: one illegal byte and then a well-formed frame of a known
\* domain give exactly one sync error and exactly one dispatch call with the
\* frame's command id and value, and leave the framer in awaiting-header.
C1_Original ==
    [][ResyncStep => (ResyncOutcome /\ len' = 0)]_vars

\* C1 amended: the same, the framer being left in awaiting-header for every
\* frame but the TEHUB restart command; for that one the sync error and the
\* dispatch call are made and the framer stays at count 4, the program
\* halted in reboot_teensy.
C1_Resync ==
    [][ResyncStep =>
         /\ ResyncOutcome
         /\ IF IsReboot(Append(buf, out'.byte))
            THEN len' = 4 /\ halted'
            ELSE len' = 0 /\ ~halted']_vars

C1_Witness ==
    /\ seg = [n |-> 5, bad |-> 1, syncs |-> 1, closed |-> TRUE]
    /\ len = 0
    /\ out.at = 3
    /\ Len(DispatchCalls(out.events)) = 1

DecodeCount(events) ==
    Len(DispatchCalls(events)) + Count(events, "error_unexpected_midi")

\* C3: in accumulating every byte is stored at buffer[len], with no header
\* test and no sync error, whatever the byte; the frame is decoded exactly
\* when the 4th byte is stored.
C3_Accumulate ==
    [][ /\ Count(out'.events, "error_sync") > 0 => len = 0
        /\ len \in 1 .. 2 =>
              /\ len' = len + 1
              /\ buf' = Append(buf, out'.byte)
              /\ out'.events = << >>
        /\ len = 3 =>
              /\ DecodeCount(out'.events) = 1
              /\ \A i \in DOMAIN DispatchCalls(out'.events) :
                    /\ DispatchCalls(out'.events)[i].a = buf[3]
                    /\ DispatchCalls(out'.events)[i].b = out'.byte
        /\ len # 3 => DecodeCount(out'.events) = 0 ]_vars

\* a legal header byte was stored as the 3rd byte of a frame
C3_Witness ==
    /\ out.at = 2
    /\ LegalHeader(out.byte)
    /\ len = 3
    /\ buf[3] = out.byte

\* C4: once the 4th byte has been handled and the dispatcher has returned
\* (success or failure) or the frame was reported as unexpected, the framer
\* is in awaiting-header with count 0.
C4_Reset ==
    (/\ out.at = 3
     /\ \/ Count(out.events, "tehub_return") = 1
        \/ Count(out.events, "sgtl5000_return") = 1
        \/ Count(out.events, "error_unexpected_midi") = 1)
    => (len = 0 /\ buf = << >>)

\* the TEHUB dispatcher returned failure
C4_Witness ==
    /\ out.at = 3
    /\ \E i \in DOMAIN out.events : out.events[i] = Ev("tehub_return", 0, 0)
    /\ len = 0

\* C5: a complete frame leads to exactly one of: one call
\* sgtl5000.dispatchCC(param1, param2) if it is of the SGTL5000 domain, one
\* call tehub_dispatchCC(param1, param2) if it is of the TEHUB domain, one
\* unexpected-message error and no call otherwise.
C5_Routing ==
    [][len = 3 =>
        LET msg == Append(buf, out'.byte)
            d == FrameDomain(msg)
            calls == DispatchCalls(out'.events)
            unexp == Count(out'.events, "error_unexpected_midi")
        IN  CASE d = "sgtl5000" ->
                    /\ calls = <<Ev("sgtl5000_dispatchCC", msg[3], msg[4])>>
                    /\ unexp = 0
              [] d = "tehub" ->
                    /\ calls = <<Ev("tehub_dispatchCC", msg[3], msg[4])>>
                    /\ unexp = 0
              [] OTHER -> calls = << >> /\ unexp = 1 ]_vars

\* a frame with the TEHUB cable and the SGTL5000 channel was reported
C5_Witness ==
    /\ out.at = 3
    /\ out.events = <<Ev("error_unexpected_midi", 0, 0)>>
    /\ seg.n >= 4

----------------------------------------------------------------------------
\* The TEHUB dispatcher and the mix levels

CurrentMixer == Mixer(mix_level, gain_L, gain_R)

\* the mixer-level command of each channel
MixCommand(c) ==
    CASE c = MIX_CHANNEL_IN   -> TEHUB_CC_MIX_IN
      [] c = MIX_CHANNEL_USB  -> TEHUB_CC_MIX_USB
      [] c = MIX_CHANNEL_LOOP -> TEHUB_CC_MIX_LOOP
      [] c = MIX_CHANNEL_AUX  -> TEHUB_CC_MIX_AUX

MixCommands == {MixCommand(c) : c \in Channels}

TehubCommands ==
    {TEHUB_CC_DUMP, TEHUB_CC_REBOOT, TEHUB_CC_RESET} \union MixCommands

UInt8 == 0 .. 255

\* the values tried with commands whose value does not matter
SomeValues == {0, 127, 128, 255}

\* the states in which the mixer has just been written: after setup() and
\* after a step that called setMixLevel.  What holds of a call made from
\* these states holds of it from every state with the same mixer.
MixerFresh ==
    \/ out.at = -1
    \/ \E i \in DOMAIN out.events : out.events[i].kind = "setMixLevel"

\* the call tehub_dispatchCC(cc, val) of the last step, if it made one
TehubCalls == {e \in {out.events[i] : i \in DOMAIN out.events} :
                 e.kind = "tehub_dispatchCC"}

Reported(e) == \E i \in DOMAIN out.events : out.events[i] = e

\* C6: tehub_dispatchCC(cc, val) for a cc that is none of the seven TEHUB
\* commands reports an error, returns false and leaves mix levels and gains
\* as they are; tehub_getCC of that cc is -1, not the 255 of the write-only
\* commands.
C6_UnknownCommand ==
    /\ MixerFresh => \A cc \in UInt8 \ TehubCommands : \A val \in SomeValues :
          LET r == tehub_dispatchCC(cc, val, CurrentMixer)
          IN  /\ r.returns
              /\ r.ret = FALSE
              /\ r.m = CurrentMixer
              /\ r.events = <<Ev("error_unknown_cc", cc, val)>>
              /\ tehub_getCC(cc, CurrentMixer) = -1
    /\ \A cc \in {TEHUB_CC_DUMP, TEHUB_CC_REBOOT, TEHUB_CC_RESET} :
          /\ tehub_getCC(cc, CurrentMixer) = 255
          /\ tehub_getCC(cc, CurrentMixer) # -1
    /\ \A e \in TehubCalls :
          e.a \notin TehubCommands =>
             /\ out.events = <<e, Ev("error_unknown_cc", e.a, e.b),
                               Ev("tehub_return", 0, 0)>>
             /\ \A c \in Channels : mix_level[c] = IF last_set[c] > 127
                                                   THEN 127 ELSE last_set[c]

\* a frame of the TEHUB domain with the unknown command 11 was dispatched
C6_Witness ==
    /\ out.at = 3
    /\ \E e \in TehubCalls : e.a = 11
    /\ Reported(Ev("tehub_return", 0, 0))

Clamped(val) == IF val > 127 THEN 127 ELSE val

\* the frame completed by the step is a TEHUB mixer-level command
MixFrame(msg) ==
    FrameDomain(msg) = "tehub" /\ msg[3] \in MixCommands

\* the step returned from tehub_dispatchCC with ret
Returned(events, ret) ==
    \E i \in DOMAIN events :
        events[i] = Ev("tehub_return", IF ret THEN 1 ELSE 0, 0)

\* C7 as stated: a mixer-level command with a value above its maximum
\* returns false and leaves mix_level and the gains as they are; with a
\* value in [0, 127] it does not fail.
C7_Original ==
    [][(len = 3 /\ MixFrame(Append(buf, out'.byte))) =>
          IF out'.byte > 127
          THEN /\ Returned(out'.events, FALSE)
               /\ mix_level' = mix_level
               /\ gain_L' = gain_L /\ gain_R' = gain_R
          ELSE Returned(out'.events, TRUE)]_vars

\* what setMixLevel(c, val) is to leave from m: val, clamped to 127, as the
\* level and as both gains of channel c, everything else as in m
MixerAfterSet(m, c, val) ==
    Mixer([m.mix_level EXCEPT ![c] = Clamped(val)],
          [m.gain_L EXCEPT ![c] = Clamped(val)],
          [m.gain_R EXCEPT ![c] = Clamped(val)])

\* C7 amended: a mixer-level command with a value above 127 is clamped, not
\* rejected: it returns true and stores 127 as the level and 1.27 as both
\* gains of its channel; with a value in [0, 127] it returns true and
\* stores the value.  This holds of each of the four commands and every
\* value of a byte, from every state.
C7_RangeClamped ==
    /\ [](MixerFresh =>
            \A c \in Channels : \A val \in UInt8 :
               LET r == tehub_dispatchCC(MixCommand(c), val, CurrentMixer)
               IN  /\ r.returns /\ r.ret
                   /\ r.m = MixerAfterSet(CurrentMixer, c, val))
    /\ [][(len = 3 /\ MixFrame(Append(buf, out'.byte))) =>
             /\ Returned(out'.events, TRUE)
             /\ \E c \in Channels :
                  /\ buf[3] = MixCommand(c)
                  /\ Mixer(mix_level', gain_L', gain_R')
                       = MixerAfterSet(CurrentMixer, c, out'.byte)]_vars

\* MIX_IN was dispatched with 128 = maximum + 1 and returned true
C7_Witness ==
    /\ out.at = 3
    /\ Ev("tehub_dispatchCC", TEHUB_CC_MIX_IN, 128) \in TehubCalls
    /\ Reported(Ev("tehub_return", 1, 0))
    /\ mix_level[MIX_CHANNEL_IN] = 127
    /\ gain_L[MIX_CHANNEL_IN] = 127

\* C8: for each mixer-level command and every v in 0..127, tehub_getCC(cc)
\* right after a tehub_dispatchCC(cc, v) that returned true is v.
C8_RoundTrip ==
    /\ MixerFresh =>
         \A cc \in MixCommands : \A v \in 0 .. 127 :
            LET r == tehub_dispatchCC(cc, v, CurrentMixer)
            IN  (r.returns /\ r.ret) => tehub_getCC(cc, r.m) = v
    /\ \A e \in TehubCalls :
         (e.a \in MixCommands /\ e.b <= 127 /\ Reported(Ev("tehub_return", 1, 0)))
            => tehub_getCC(e.a, CurrentMixer) = e.b

\* MIX_IN was dispatched with 43
C8_Witness ==
    /\ out.at = 3
    /\ Ev("tehub_dispatchCC", TEHUB_CC_MIX_IN, 43) \in TehubCalls
    /\ Reported(Ev("tehub_return", 1, 0))
    /\ tehub_getCC(TEHUB_CC_MIX_IN, CurrentMixer) = 43

\* C9: setMixLevel(channel, val) with channel in 0..3 and val in 128..255
\* returns true and stores 127; the get that follows is 127, not val.
C9_Clamp ==
    /\ MixerFresh =>
         \A c \in Channels : \A val \in 128 .. 255 :
            LET r == setMixLevel(c, val, CurrentMixer)
            IN  /\ r.returns /\ r.ret
                /\ r.m.mix_level[c] = 127
                /\ tehub_getCC(MixCommand(c), r.m) = 127
                /\ tehub_getCC(MixCommand(c), r.m) # val
    /\ \A c \in Channels :
         last_set[c] \in 128 .. 255 =>
            /\ mix_level[c] = 127
            /\ tehub_getCC(MixCommand(c), CurrentMixer) = 127

\* the last setMixLevel call for MIX_CHANNEL_IN had val = 128
C9_Witness ==
    /\ last_set[MIX_CHANNEL_IN] = 128
    /\ mix_level[MIX_CHANNEL_IN] = 127
    /\ \E i \in DOMAIN out.events :
          out.events[i] = Ev("setMixLevel", MIX_CHANNEL_IN, 128)

\* C10: each mix_level[c] is the value, clamped to 127, of the last
\* successful setMixLevel call for c, or the startup default; a set on one
\* channel leaves the other entries, and DUMP, RESET, REBOOT, unknown
\* commands and framing errors leave every entry.
C10_MixLevelFrame ==
    /\ \A c \in Channels : mix_level[c] = Clamped(last_set[c])
    /\ MixerFresh =>
         /\ \A cc \in UInt8 \ MixCommands : \A val \in SomeValues :
               tehub_dispatchCC(cc, val, CurrentMixer).m.mix_level = mix_level
         /\ \A c \in Channels : \A val \in SomeValues :
               \A d \in Channels \ {c} :
                  tehub_dispatchCC(MixCommand(c), val, CurrentMixer)
                     .m.mix_level[d] = mix_level[d]

\* MIX_IN was set to 43 and a DUMP came after it
C10_Witness ==
    /\ out.at = 3
    /\ Reported(Ev("dump_header", 0, 0))
    /\ last_set[MIX_CHANNEL_IN] = 43
    /\ mix_level[MIX_CHANNEL_IN] = 43
    /\ mix_level[MIX_CHANNEL_USB] = DEFAULT_VOLUME_USB

----------------------------------------------------------------------------
\* C11 .. C20

\* the bytes of a sequence handled one after the other from the framer
\* state (n, b) and the mixer m, every sgtl5000.dispatchCC returning true;
\* nothing is handled once reboot_teensy() was entered
RECURSIVE feed(_, _, _, _, _)
feed(bytes, n, b, m, events) ==
    IF bytes = << >>
    THEN [len |-> n, buf |-> b, m |-> m, events |-> events, returns |-> TRUE]
    ELSE LET r == handleByte(Head(bytes), n, b, m, TRUE)
         IN  IF r.returns
             THEN feed(Tail(bytes), r.len, r.buf, r.m, events \o r.events)
             ELSE [r EXCEPT !.events = events \o r.events]

\* well-formed frames of both domains: known and unknown commands, values
\* in range and above it, the restart command among them
GoodFrames ==
    {<<11, SGTL5000_CHANNEL, cc, v>> : cc \in {5, 99}, v \in {0, 50, 128}}
    \cup {<<27, TEHUB_CHANNEL, cc, v>> : cc \in {1, 2, 3, 4, 7, 99},
                                         v \in {0, 50, 128}}

\* the last byte led to a sync error, an unexpected-frame error, an unknown
\* command error or a set that the SGTL5000 dispatcher rejected
ErrorReported ==
    \/ Count(out.events, "error_sync") > 0
    \/ Count(out.events, "error_unexpected_midi") > 0
    \/ Count(out.events, "error_unknown_cc") > 0
    \/ Reported(Ev("sgtl5000_return", 0, 0))
    \/ Reported(Ev("tehub_return", 0, 0))

RebootDispatched ==
    \E i \in DOMAIN out.events :
       /\ out.events[i].kind = "tehub_dispatchCC"
       /\ out.events[i].a = TEHUB_CC_REBOOT

\* C11: no sync error, unexpected-frame error, unknown-command error or
\* rejected value stops processing: after any of them the program goes on
\* reading, the framer awaits a header, and every well-formed frame that
\* follows is dispatched exactly once with its command and value and
\* without a further error; the program stops reading exactly when the
\* restart command TEHUB_CC_REBOOT was dispatched.
C11_NoFatalError ==
    /\ halted <=> RebootDispatched
    /\ ErrorReported =>
         /\ ~halted
         /\ len = 0
         /\ \A f \in GoodFrames :
               LET r == feed(f, len, buf, CurrentMixer, << >>)
               IN  /\ DispatchCalls(r.events) = <<ExpectedCall(f)>>
                   /\ Count(r.events, "error_sync") = 0
                   /\ Count(r.events, "error_unexpected_midi") = 0
                   /\ r.returns <=> ~IsReboot(f)

\* two sync errors and then a frame that was dispatched
C11_Witness ==
    /\ seg.syncs = 2
    /\ seg.closed
    /\ Len(DispatchCalls(out.events)) = 1
    /\ ~halted

\* the positions of the events of one kind in a sequence of events
Positions(events, kind) == {i \in DOMAIN events : events[i].kind = kind}

\* the bytes an iteration read, in the order it read them
BytesRead(events) ==
    LET reads == SelectSeq(events, LAMBDA e : e.kind = "read")
    IN  [i \in DOMAIN reads |-> reads[i].a]

\* the iteration dispatched the restart command
IterationRebooted ==
    \E i \in DOMAIN it.end.events :
       /\ it.end.events[i].kind = "tehub_dispatchCC"
       /\ it.end.events[i].a = TEHUB_CC_REBOOT

\* every available byte was read, in order, and then the tick ran once
DrainedThenTicked ==
    /\ BytesRead(it.end.events) = it.bytes
    /\ Cardinality(Positions(it.end.events, "tick")) = 1
    /\ \A i \in Positions(it.end.events, "read") :
          \A j \in Positions(it.end.events, "tick") : i < j
    /\ it.mid.sg = it.start.sg \/ Len(SgtlCalls(it.end.events)) > 0
    /\ it.end.sg = SGTL5000_loop(it.mid.sg, EQ_QUANTUM).sg

\* C12 as stated: each iteration of loop() reads every byte that is
\* available and then calls sgtl5000.loop() exactly once.
C12_Original ==
    it.ran => DrainedThenTicked

\* C12 amended: the same for every iteration that does not dispatch the
\* restart command; the iteration that dispatches TEHUB_CC_REBOOT reads the
\* bytes up to the end of that frame, never calls sgtl5000.loop() and never
\* ends.
C12_DrainThenTick ==
    it.ran =>
        IF IterationRebooted
        THEN /\ halted
             /\ Positions(it.end.events, "tick") = {}
             /\ Len(BytesRead(it.end.events)) <= Len(it.bytes)
             /\ BytesRead(it.end.events) =
                   SubSeq(it.bytes, 1, Len(BytesRead(it.end.events)))
             /\ it.end.events[Len(it.end.events)] = Ev("warning_reboot", 0, 0)
             /\ it.end.sg = it.mid.sg
        ELSE ~halted /\ DrainedThenTicked

\* iterations with no byte, with half a frame and with an error, each with
\* its tick: here the one that read half a frame
C12_Witness ==
    /\ it.ran
    /\ it.bytes = <<11, 2>>
    /\ len = 2
    /\ Cardinality(Positions(it.end.events, "tick")) = 1

\* C13 as stated: once the byte stream has stalled the framer is in
\* awaiting-header, whatever bytes were delivered before.
C13_Original ==
    stalled => len = 0

\* C13 amended: there is no timeout; once the byte stream has stalled the
\* framer keeps, through every later iteration of loop(), the count and the
\* buffer the last delivered byte left: awaiting-header if that byte was
\* rejected or completed a frame, accumulating if it left a frame partly
\* received.  The iterations go on, each reading nothing and making its
\* tick.
C13_Stall ==
    [][stalled =>
         /\ len' = len
         /\ buf' = buf
         /\ it'.ran
         /\ it'.bytes = << >>
         /\ BytesRead(it'.end.events) = << >>
         /\ Cardinality(Positions(it'.end.events, "tick")) = 1]_vars

\* the stream stalled after the first half of a frame, and an iteration
\* ran since
C13_Witness ==
    /\ stalled
    /\ it.ran
    /\ it.bytes = << >>
    /\ len = 2
    /\ buf = <<11, 2>>

\* the ramp state of a band: busy exactly if it is not at its target
BusyIffOffTarget(s) ==
    \A b \in Bands :
       (b \in s.m_in_automation) <=> (s.m_band_value[b] # s.m_band_target[b])

\* the ramp state of band b
RampState(s, b) ==
    <<s.m_band_value[b], s.m_band_target[b], b \in s.m_in_automation,
      s.eq_reg[b]>>

\* the sets of band b the iteration dispatched that were not rejected
BandSets(events, b) ==
    {i \in DOMAIN events :
        /\ events[i].kind = "sgtl5000_dispatchCC"
        /\ events[i].a = SGTL_CC_EQ_BAND0 + b
        /\ events[i].b <= EQ_BAND_MAX}

\* C14: in every state, also between handleSerialMidi() and
\* sgtl5000.loop(), a band's bit of m_in_automation is set exactly if
\* m_band_value[b] # m_band_target[b]; a band that is at its target at the
\* start of an iteration of loop() keeps its value, target, bit and
\* register through the iteration unless the iteration sets a new target
\* for it.
C14_BusyInvariant ==
    /\ BusyIffOffTarget(sg)
    /\ it.ran =>
         /\ BusyIffOffTarget(it.mid.sg)
         /\ \A b \in Bands :
               (/\ it.start.sg.m_band_value[b] = it.start.sg.m_band_target[b]
                /\ BandSets(it.end.events, b) = {})
               => RampState(sg, b) = RampState(it.start.sg, b)

\* band 0 went from 47 to its target 50 and is idle again
C14_Witness ==
    /\ sg.m_band_value[0] = 50
    /\ sg.m_band_target[0] = 50
    /\ 0 \notin sg.m_in_automation
    /\ it.ran
    /\ it.start.sg.m_band_value[0] = 49

Min(a, b) == IF a < b THEN a ELSE b

\* C15: from current = 0 and target = 100 with quantum 1 and no further
\* target change, after t ticks current = min(t, 100); the band is ramping
\* before the 100th tick and idle from the 100th tick on.
C15_RampMonotone ==
    probe.kind = "ramp" =>
        /\ probe.s.m_band_value[0] = Min(probe.t, 100)
        /\ probe.s.eq_reg[0] = Min(probe.t, 100)
        /\ probe.s.m_band_target[0] = 100
        /\ (0 \in probe.s.m_in_automation) <=> (probe.t < 100)

\* exactly 100 ticks were made
C15_Witness ==
    /\ probe.kind = "ramp"
    /\ probe.t = 100
    /\ probe.s.m_band_value[0] = 100
    /\ probe.s.m_in_automation = {}

Abs(x) == IF x < 0 THEN -x ELSE x

\* the value of the last set of band b the iteration dispatched
LastBandSet(events, b) ==
    LET i == CHOOSE k \in BandSets(events, b) :
                \A j \in BandSets(events, b) : j <= k
    IN  events[i].b

\* band b was on its way to a target at the start of the iteration and the
\* iteration gave it another one
Retargeted(b) ==
    /\ it.ran
    /\ b \in it.start.sg.m_in_automation
    /\ BandSets(it.end.events, b) # {}
    /\ LastBandSet(it.end.events, b) # it.start.sg.m_band_target[b]

\* C16: a set replaces the target at once, whether or not the band had
\* reached its old target, and moves neither the band's value nor its
\* register; a tick moves the value by at most one quantum, from the value
\* the band had, toward the target in force.
C16_Retarget ==
    it.ran =>
        \A b \in Bands :
           LET v0 == it.start.sg.m_band_value[b]
               v1 == it.mid.sg.m_band_value[b]
               v2 == it.end.sg.m_band_value[b]
               target == it.mid.sg.m_band_target[b]
           IN  /\ v1 = v0
               /\ it.mid.sg.eq_reg[b] = it.start.sg.eq_reg[b]
               /\ BandSets(it.end.events, b) # {} =>
                     target = LastBandSet(it.end.events, b)
               /\ BandSets(it.end.events, b) = {} =>
                     target = it.start.sg.m_band_target[b]
               /\ it.end.sg.m_band_target[b] = target
               /\ ~halted =>
                     /\ Abs(v2 - v1) <= EQ_QUANTUM
                     /\ Abs(target - v2) <= Abs(target - v1)
                     /\ v2 = rampStep(v0, target, EQ_QUANTUM)
                     /\ it.end.sg.eq_reg[b] = v2

\* band 0 was at 49 on its way to 50 when its target became 44: it is at
\* 47 after the tick and never was at 50
C16_Witness ==
    /\ Retargeted(0)
    /\ it.start.sg.m_band_value[0] = 49
    /\ it.start.sg.m_band_target[0] = 50
    /\ sg.m_band_target[0] = 44
    /\ sg.m_band_value[0] = 47

\* the sets of the parameter that is not ramped which the iteration
\* dispatched and which were not rejected
DirectSets(events) ==
    {i \in DOMAIN events :
        /\ events[i].kind = "sgtl5000_dispatchCC"
        /\ events[i].a = SGTL_CC_MIC_GAIN
        /\ events[i].b <= MIC_GAIN_MAX}

\* C17: the dispatch of a set of an EQ band changes the band's target (and
\* its busy bit) and nothing else, and writes no register; the band's
\* register is written by the ticks only.  The dispatch of a set of a
\* parameter that is not ramped writes its register inside the dispatch
\* call.
C17_RampTargetOnly ==
    it.ran =>
        /\ \A i \in Positions(it.end.events, "write_eq") :
              \E j \in Positions(it.end.events, "tick") : j < i
        /\ Positions(it.mid.events, "write_eq") = {}
        /\ it.mid.sg.m_band_value = it.start.sg.m_band_value
        /\ it.mid.sg.eq_reg = it.start.sg.eq_reg
        /\ \A b \in Bands :
              BandSets(it.end.events, b) = {} =>
                 RampState(it.mid.sg, b) = RampState(it.start.sg, b)
        /\ \A i \in DirectSets(it.end.events) :
              /\ i + 1 \in DOMAIN it.mid.events
              /\ it.mid.events[i + 1] = Ev("write_mic", 0, it.end.events[i].b)
        /\ DirectSets(it.end.events) # {} =>
              it.mid.sg.mic_reg \in
                 {it.end.events[i].b : i \in DirectSets(it.end.events)}
        /\ DirectSets(it.end.events) = {} =>
              /\ it.mid.sg.mic_reg = it.start.sg.mic_reg
              /\ Positions(it.end.events, "write_mic") = {}
        /\ it.end.sg.mic_reg = it.mid.sg.mic_reg

\* band 0 was set to 50 while at 47: its register is still 47 when the
\* dispatch is over and 49 after the tick
C17_Witness ==
    /\ it.ran
    /\ BandSets(it.end.events, 0) # {}
    /\ it.start.sg.eq_reg[0] = 47
    /\ it.mid.sg.eq_reg[0] = 47
    /\ it.mid.sg.m_band_target[0] = 50
    /\ sg.eq_reg[0] = 49

\* the frame of the specification's end-to-end scenario
ScenarioFrame == <<11, 2, 5, 50>>

\* the iteration read the scenario's frame and nothing else, the framer
\* having been in awaiting-header before the frame's first byte: the frame
\* came whole, or its second half came after its first
ScenarioRead ==
    /\ it.ran
    /\ \/ it.start.len = 0 /\ it.bytes = ScenarioFrame
       \/ /\ it.start.len = 2
          /\ it.start.buf = SubSeq(ScenarioFrame, 1, 2)
          /\ it.bytes = SubSeq(ScenarioFrame, 3, 4)

\* the reports of an iteration that are errors
ErrorEvents(events) ==
    {i \in DOMAIN events :
        events[i].kind \in {"error_sync", "error_unexpected_midi",
                            "error_unknown_cc", "error_unknown_sgtl_cc",
                            "error_value", "error_mix_channel"}}

\* C18: [0x0B, 0x02, 0x05, 0x32] fed to the framer in awaiting-header is
\* taken as a frame of the SGTL5000 domain and leads to exactly one
\* dispatcher call, sgtl5000.dispatchCC(5, 50), to no call of the TEHUB
\* dispatcher and to no error; command 5 being an EQ band, its register is
\* not changed by the dispatch and its target becomes 50.
C18_Scenario ==
    ScenarioRead =>
        /\ FrameDomain(ScenarioFrame) = "sgtl5000"
        /\ DispatchCalls(it.end.events) = <<Ev("sgtl5000_dispatchCC", 5, 50)>>
        /\ ErrorEvents(it.end.events) = {}
        /\ \E i \in DOMAIN it.mid.events :
              it.mid.events[i] = Ev("sgtl5000_return", 1, 0)
        /\ it.mid.len = 0
        /\ it.mid.m = it.start.m
        /\ it.mid.sg.m_band_target[5 - SGTL_CC_EQ_BAND0] = 50
        /\ it.mid.sg.eq_reg = it.start.sg.eq_reg
        /\ it.mid.sg.m_band_value = it.start.sg.m_band_value
        /\ Positions(it.mid.events, "write_eq") = {}

\* the frame came whole while band 0 was idle at 47
C18_Witness ==
    /\ it.ran
    /\ it.start.len = 0
    /\ it.bytes = ScenarioFrame
    /\ it.start.sg.m_band_target[0] = 47
    /\ it.mid.sg.m_band_target[0] = 50
    /\ it.mid.sg.eq_reg[0] = 47

\* the commands a dump is to print: in the range, not write only, and
\* known to tehub_getCC
Implemented(m, writeOnly) ==
    {cc \in TEHUB_CC_BASE .. TEHUB_CC_MAX :
        cc \notin writeOnly /\ tehub_getCC(cc, m) # -1}

\* the commands the lines of a dump are about
Printed(events) ==
    {events[i].a : i \in Positions(events, "dump_line")}

\* C19: tehub_dumpCCValues reports the "no CC's implemented" error exactly
\* once when no command of TEHUB_CC_BASE .. TEHUB_CC_MAX is both not write
\* only and implemented, and not at all when at least one line was
\* printed; it prints one line for each implemented command that is not
\* write only, and none for a write-only command.
C19_DumpError ==
    probe.kind = "dump" =>
        LET todo == Implemented(probe.m, probe.writeOnly)
            errors == Cardinality(Positions(probe.events, "error_no_cc"))
        IN  /\ errors = (IF todo = {} THEN 1 ELSE 0)
            /\ Positions(probe.events, "dump_line") # {} => errors = 0
            /\ Printed(probe.events) = todo
            /\ Cardinality(Positions(probe.events, "dump_line")) =
                  Cardinality(todo)
            /\ Printed(probe.events) \cap probe.writeOnly = {}
            /\ \A i \in Positions(probe.events, "dump_line") :
                  probe.events[i].b =
                     tehub_getCC(probe.events[i].a, probe.m)

\* every command is write only: the heading and the error, once
C19_Witness ==
    /\ probe.kind = "dump"
    /\ probe.writeOnly = TEHUB_CC_BASE .. TEHUB_CC_MAX
    /\ probe.events = <<Ev("dump_header", 0, 0), Ev("error_no_cc", 0, 0)>>

\* the bits of x outside mask
Outside(x, mask) == BitAnd(x, BitNot(mask))

\* C20 as stated: modify changes only the bits of mask, whatever val is,
\* and returns failure exactly if its write fails.
C20_Original ==
    probe.kind = "modify" =>
        /\ Outside(probe.result.reg, probe.mask) =
              Outside(probe.reg, probe.mask)
        /\ probe.result.ret <=> probe.write_ok

\* C20 amended: modify returns failure exactly if its write fails, and a
\* failed write leaves the register.  When its read succeeds, a successful
\* modify puts the bits of val that are in mask into the register and
\* keeps the register's bits outside mask, also for a val with bits
\* outside mask.  When its read fails and its write succeeds, it reports
\* success and has cleared the register's bits outside mask.
C20_Modify ==
    probe.kind = "modify" =>
        /\ probe.result.ret <=> probe.write_ok
        /\ ~probe.write_ok => probe.result.reg = probe.reg
        /\ probe.write_ok =>
              /\ BitAnd(probe.result.reg, probe.mask) =
                    BitAnd(probe.val, probe.mask)
              /\ Outside(probe.result.reg, probe.mask) =
                    (IF probe.read_ok THEN Outside(probe.reg, probe.mask)
                     ELSE 0)

\* val has bits outside the mask, the register too; both bus transactions
\* succeeded
C20_Witness ==
    /\ probe.kind = "modify"
    /\ probe.reg = 65280
    /\ probe.val = 65535
    /\ probe.mask = 3855
    /\ probe.read_ok /\ probe.write_ok
    /\ probe.result = BusResult(TRUE, 65295)

----------------------------------------------------------------------------
\* C21 .. C25

\* C21 as stated: the test of the leading byte checks only the cable, so in
\* awaiting-header a byte with a known cable becomes buffer[0] and the count
\* 1 whatever its low nibble is, and nothing is reported.
C21_Original ==
    (out.at = 0 /\ knownCable(out.byte)) =>
        /\ len = 1
        /\ buf = <<out.byte>>
        /\ out.events = << >>

\* the step dispatched TEHUB_CC_REBOOT
RebootCall(events) ==
    \E i \in DOMAIN events :
        /\ events[i].kind = "tehub_dispatchCC"
        /\ events[i].a = TEHUB_CC_REBOOT

\* C22: a step that dispatches TEHUB_CC_REBOOT enters reboot_teensy() and
\* stays there: tehub_dispatchCC does not return, the RESET case below it
\* is not run (no "RESET not implemented" report), no mix level or gain
\* changes, the count stays at 4 instead of being set to 0; and no step
\* starts from a state in which reboot_teensy() was entered, so no further
\* byte is read.
C22_RebootNeverReturns ==
    [][/\ ~halted
       /\ RebootCall(out'.events) =>
            /\ halted'
            /\ Count(out'.events, "warning_reboot") = 1
            /\ Count(out'.events, "reset_not_implemented") = 0
            /\ Count(out'.events, "tehub_return") = 0
            /\ mix_level' = mix_level
            /\ gain_L' = gain_L
            /\ gain_R' = gain_R
            /\ len' = 4
            /\ buf' = Append(buf, out'.byte)]_vars

\* the 4th byte of a REBOOT frame was read
C22_Witness ==
    /\ halted
    /\ len = 4
    /\ out.at = 3
    /\ RebootCall(out.events)

\* the frames whose handling came to its end, len = 0 (TE3_hub.ino 470): a
\* dispatcher returned or the unexpected-frame error was reported
CompletedFrames(events) ==
    Count(events, "sgtl5000_return") + Count(events, "tehub_return")
    + Count(events, "error_unexpected_midi")

\* C23: after any sequence of bytes, delivered in any pieces, every byte
\* was read with the count in 0..3 (the index it is stored at, if it is
\* stored), the count is in 0..3 whenever a further byte can be read, the
\* bytes read are the bytes delivered, each once and in order, and
\* bytes read = sync errors + 4 * completed frames + len.
C23_ByteAccounting ==
    /\ \A i \in Positions(probe.events, "read") :
          probe.events[i].b \in 0 .. 3
    /\ ~halted => len \in 0 .. 3
    /\ Len(buf) = len
    /\ BytesRead(probe.events)
         = SubSeq(probe.bytes, 1, Count(probe.events, "read"))
    /\ ~halted => Count(probe.events, "read") = Len(probe.bytes)
    /\ Count(probe.events, "read")
         = Count(probe.events, "error_sync")
           + 4 * CompletedFrames(probe.events) + len

\* a sync error, a completed frame and the first byte of the next frame
C23_Witness ==
    /\ probe.bytes = <<43, 11, 2, 5, 50, 11>>
    /\ Count(probe.events, "error_sync") = 1
    /\ CompletedFrames(probe.events) = 1
    /\ len = 1

\* what the claim compares: the bytes read with the count at the time, the
\* sync errors, the unexpected-frame errors and the dispatch calls
Observed(events) ==
    SelectSeq(events, LAMBDA e :
                e.kind \in {"read", "error_sync", "error_unexpected_midi",
                            "sgtl5000_dispatchCC", "tehub_dispatchCC"})

\* C24: the reads, sync errors, unexpected-frame errors and dispatch calls
\* of a byte stream delivered in pieces, with a tick after each piece and
\* any number of ticks without a byte in between, are those of one call of
\* handleSerialMidi that finds the whole stream available, and the framer
\* is left in the same state.
C24_SplitIndependent ==
    \A one \in {handleSerialMidi(probe.bytes, StartHub)} :
        /\ Observed(probe.events) = Observed(one.events)
        /\ len = one.len
        /\ buf = one.buf
        /\ halted = one.halted

\* the frame [0x0B, 0x02, 0x05, 0x32] arrived in more than one iteration,
\* with an iteration that found no byte in between, and was dispatched
C24_Witness ==
    /\ probe.bytes = <<11, 2, 5, 50>>
    /\ probe.split
    /\ probe.idle
    /\ Len(DispatchCalls(probe.events)) = 1
    /\ len = 0

\* the calls of the left and the right setter a stereo setter made
ChannelCalls(events) == [i \in DOMAIN events |-> events[i].kind]

\* C25: a stereo setter calls the left setter first and the right setter
\* only if the left one returned true; it returns true exactly if both
\* returned true; a channel whose setter was not called or failed keeps its
\* value, and when the right setter fails after the left one succeeded the
\* left channel holds the new value although the call returns false.
C25_StereoSetter ==
    probe.kind = "stereo" =>
        LET p == probe.param
            r == probe.result
        IN  /\ ChannelCalls(r.events)
                 = (IF probe.left_ok THEN <<"left", "right">>
                                     ELSE <<"left">>)
            /\ \A i \in DOMAIN r.events : r.events[i].a = probe.val
            /\ r.ret <=> (\A i \in DOMAIN r.events : r.events[i].b = 1)
            /\ r.ret <=> (probe.left_ok /\ probe.right_ok)
            /\ r.sg.left[p] = (IF probe.left_ok
                               THEN probe.val ELSE probe.before.left[p])
            /\ r.sg.right[p] = (IF probe.left_ok /\ probe.right_ok
                                THEN probe.val ELSE probe.before.right[p])
            /\ \A q \in StereoParams \ {p} :
                  /\ r.sg.left[q] = probe.before.left[q]
                  /\ r.sg.right[q] = probe.before.right[q]

\* the right setter failed after the left one succeeded: the call reports
\* failure and the left channel has the new value
C25_Witness ==
    /\ probe.kind = "stereo"
    /\ probe.left_ok /\ ~probe.right_ok
    /\ ~probe.result.ret
    /\ probe.result.sg.left[probe.param] = probe.val
    /\ probe.result.sg.left[probe.param] # probe.before.left[probe.param]
    /\ probe.result.sg.right[probe.param] = probe.before.right[probe.param]

====
